---- MODULE Spec2Model ----
(***************************************************************************)
(* AuctionIO (src/AuctionIO-object.py): a Tk application whose main thread *)
(* runs the button handlers (insert_new_client, change_clock_tick) and the *)
(* periodic update, and starts one daemon thread (step_proc_pb) per file   *)
(* sent to a host.  Handlers of the main thread are atomic with respect to *)
(* each other; the threads interleave with them at statement granularity.  *)
(***************************************************************************)
EXTENDS Integers, Naturals, Sequences, FiniteSets, Bags, TLC

\* ------------------------------------------------------------------ bounds
NumHosts == 2        \* hosts modelled (status_list has 5 entries in the code)
MaxClients == 3      \* clients ever generated (cap on id)
MaxThreads == 2      \* threads alive at once
MaxFiles == 2        \* longest file list drawn by insert_new_client
MaxSize == 2         \* largest file size drawn by insert_new_client
MaxTime == 3         \* waiting time after which a tick runs only to send a file
NumSteps == 1        \* iterations of the progress loop (100 in the code)
MaxClockTick == 1100 \* largest clock_tick reached by "Slow down"

\* ------------------------------------------------------- float arithmetic
\* CoefficientTable[c][t + 1][v] is the position, in ascending order, of the
\* IEEE-754 double that CPython computes for
\*     ((1 / c) * t) + (math.log((v / c), 1 / 2))
\* among the doubles computed for all c in 1..5, t in 0..24, v in 1..5
\* (-0.0 and 0.0 compare equal and share a position).  Two positions are
\* ordered, or equal, exactly as the two doubles are.
CoefficientTable ==
  <<
     <<<<21, 6, 3, 2, 1>>,
       <<53, 21, 9, 6, 5>>,
       <<93, 53, 31, 21, 16>>,
       <<131, 93, 67, 53, 42>>,
       <<168, 131, 107, 93, 80>>,
       <<207, 168, 145, 131, 118>>,
       <<238, 207, 183, 168, 156>>,
       <<261, 238, 220, 207, 194>>,
       <<277, 261, 247, 238, 230>>,
       <<286, 277, 268, 261, 254>>,
       <<294, 286, 280, 277, 273>>,
       <<300, 294, 289, 286, 283>>,
       <<304, 300, 296, 294, 292>>,
       <<308, 304, 301, 300, 298>>,
       <<311, 308, 305, 304, 303>>,
       <<314, 311, 309, 308, 307>>,
       <<317, 314, 312, 311, 310>>,
       <<320, 317, 315, 314, 313>>,
       <<323, 320, 318, 317, 316>>,
       <<326, 323, 321, 320, 319>>,
       <<329, 326, 324, 323, 322>>,
       <<332, 329, 327, 326, 325>>,
       <<335, 332, 330, 329, 328>>,
       <<337, 335, 333, 332, 331>>,
       <<338, 337, 336, 335, 334>>>>,
     <<<<53, 21, 10, 6, 4>>,
       <<70, 34, 17, 11, 7>>,
       <<93, 53, 32, 21, 14>>,
       <<109, 70, 47, 34, 22>>,
       <<131, 93, 68, 53, 41>>,
       <<147, 109, 86, 70, 57>>,
       <<168, 131, 107, 93, 79>>,
       <<185, 147, 124, 109, 97>>,
       <<207, 168, 145, 131, 117>>,
       <<222, 185, 162, 147, 135>>,
       <<238, 207, 183, 168, 155>>,
       <<248, 222, 200, 185, 172>>,
       <<261, 238, 220, 207, 193>>,
       <<269, 248, 233, 222, 212>>,
       <<277, 261, 247, 238, 229>>,
       <<281, 269, 257, 248, 241>>,
       <<286, 277, 268, 261, 253>>,
       <<290, 281, 275, 269, 263>>,
       <<294, 286, 280, 277, 272>>,
       <<297, 290, 284, 281, 278>>,
       <<300, 294, 289, 286, 283>>,
       <<302, 297, 293, 290, 287>>,
       <<304, 300, 296, 294, 292>>,
       <<306, 302, 299, 297, 295>>,
       <<308, 304, 301, 300, 298>>>>,
     <<<<74, 36, 21, 12, 8>>,
       <<88, 48, 29, 18, 13>>,
       <<101, 61, 40, 26, 20>>,
       <<112, 74, 53, 36, 27>>,
       <<126, 88, 64, 48, 37>>,
       <<139, 101, 78, 60, 51>>,
       <<150, 112, 93, 74, 62>>,
       <<163, 125, 104, 87, 75>>,
       <<176, 139, 116, 101, 91>>,
       <<188, 150, 131, 112, 102>>,
       <<201, 163, 142, 125, 113>>,
       <<215, 176, 154, 139, 129>>,
       <<225, 188, 168, 150, 140>>,
       <<234, 201, 180, 163, 151>>,
       <<243, 214, 192, 175, 166>>,
       <<250, 225, 207, 188, 177>>,
       <<258, 234, 218, 201, 189>>,
       <<265, 243, 228, 214, 205>>,
       <<270, 250, 238, 225, 216>>,
       <<276, 258, 246, 234, 226>>,
       <<279, 265, 252, 243, 237>>,
       <<282, 270, 261, 250, 244>>,
       <<285, 276, 267, 258, 251>>,
       <<288, 279, 271, 265, 260>>,
       <<291, 282, 277, 270, 266>>>>,
     <<<<93, 53, 32, 21, 15>>,
       <<100, 59, 39, 25, 19>>,
       <<109, 70, 47, 34, 23>>,
       <<122, 84, 56, 45, 33>>,
       <<131, 93, 68, 53, 41>>,
       <<138, 100, 77, 59, 50>>,
       <<147, 109, 86, 70, 57>>,
       <<160, 122, 96, 84, 69>>,
       <<168, 131, 107, 93, 79>>,
       <<174, 138, 115, 100, 90>>,
       <<185, 147, 124, 109, 98>>,
       <<198, 160, 134, 122, 108>>,
       <<207, 168, 145, 131, 118>>,
       <<213, 174, 153, 138, 128>>,
       <<222, 185, 162, 147, 136>>,
       <<232, 198, 171, 160, 146>>,
       <<238, 207, 183, 168, 156>>,
       <<242, 213, 191, 174, 165>>,
       <<248, 222, 200, 185, 172>>,
       <<256, 232, 211, 198, 184>>,
       <<261, 238, 220, 207, 193>>,
       <<264, 242, 227, 213, 204>>,
       <<269, 248, 233, 222, 212>>,
       <<274, 256, 240, 232, 221>>,
       <<277, 261, 247, 238, 229>>>>,
     <<<<103, 63, 44, 28, 21>>,
       <<110, 71, 52, 35, 24>>,
       <<119, 81, 55, 43, 30>>,
       <<127, 89, 65, 49, 38>>,
       <<132, 94, 73, 54, 46>>,
       <<141, 103, 83, 63, 53>>,
       <<148, 110, 92, 72, 58>>,
       <<157, 119, 95, 82, 66>>,
       <<164, 127, 105, 89, 76>>,
       <<169, 132, 111, 94, 85>>,
       <<178, 141, 121, 103, 93>>,
       <<186, 148, 130, 110, 99>>,
       <<195, 158, 133, 120, 106>>,
       <<202, 164, 143, 127, 114>>,
       <<208, 169, 149, 132, 123>>,
       <<217, 178, 159, 141, 131>>,
       <<223, 186, 167, 148, 137>>,
       <<231, 195, 170, 158, 144>>,
       <<235, 202, 181, 164, 152>>,
       <<239, 208, 187, 169, 161>>,
       <<245, 217, 197, 179, 168>>,
       <<249, 223, 206, 186, 173>>,
       <<255, 231, 210, 196, 182>>,
       <<259, 236, 219, 203, 190>>,
       <<262, 239, 224, 209, 199>>>>
  >>

\* the waiting time left out, as in the expression of line 163
CoefficientWithoutTime(t, v, c) == CoefficientTable[c][1][v]

\* lines 163 and 223-224: the coefficient expression
Coefficient(t, v, c) == CoefficientTable[c][t + 1][v]

\* one value past the upper end
RandIntPastEnd(a, b) == a .. (b + 1)

\* random.randint(a, b): both ends included
RandInt(a, b) == a .. b

\* line 159: range(1, n) has n - 1 elements
RangeLen(n) == n - 1

RECURSIVE InsertSorted(_, _)
InsertSorted(x, s) ==
  IF s = <<>> THEN <<x>>
  ELSE IF x <= Head(s) THEN <<x>> \o s
  ELSE <<Head(s)>> \o InsertSorted(x, Tail(s))

\* the list left as drawn
NoSort(s) == s

\* line 161: files.sort()
RECURSIVE Sort(_)
Sort(s) == IF s = <<>> THEN <<>> ELSE InsertSorted(Head(s), Sort(Tail(s)))

\* ------------------------------------------------------------------- state
VARIABLES
  num_clients,   \* self.num_clients
  id,            \* self.id
  clock_tick,    \* self.clock_tick
  clients_list,  \* self.clients_list: sequence of [id, files, time, coefficient]
  status_list,   \* self.status_list[i][2] for i in 0..NumHosts-1
  threads,       \* bag of the threads started by update that have not ended
  gen,           \* the file list under construction at line 159
  sent           \* history: size of the last file sent, by client id (0: none)

vars == <<num_clients, id, clock_tick, clients_list, status_list, threads, gen, sent>>

Hosts == 0 .. (NumHosts - 1)

GenIdle == [pc |-> "idle", n |-> 0, files |-> <<>>]

\* __init__, lines 75-78 and 106-107; the update call of line 149 finds
\* clients_list empty and changes nothing
Init ==
  /\ num_clients = 0
  /\ id = 1
  /\ clock_tick = 1000
  /\ clients_list = <<>>
  /\ status_list = [h \in Hosts |-> FALSE]
  /\ threads = EmptyBag
  /\ gen = GenIdle
  /\ sent = [c \in 1 .. MaxClients |-> 0]

\* sizes and counts the model draws, inside the ranges of line 159
ModelSizes == {v \in RandInt(1, 1000) : v <= MaxSize}
ModelCounts == {n \in RandInt(2, 11) : RangeLen(n) <= MaxFiles}

\* lines 156-167 for the drawn list raw
NewClient(raw, nc, cid) ==
  LET files == Sort(raw)
  IN  [id |-> cid, files |-> files, time |-> 0,
       coefficient |-> Coefficient(0, files[1], nc)]

insert_new_client ==
  /\ id <= MaxClients
  /\ \E n \in ModelCounts :
       \E raw \in [1 .. RangeLen(n) -> ModelSizes] :
         /\ num_clients' = num_clients + 1
         /\ clients_list' = Append(clients_list, NewClient(raw, num_clients + 1, id))
         /\ id' = id + 1
  /\ UNCHANGED <<clock_tick, status_list, threads, gen, sent>>

\* ------------------------------------------------------------------ update
\* the coefficient field left as it was
RefreshClientKeepCoefficient(c, nc) ==
  [id |-> c.id, files |-> c.files, time |-> c.time + 1,
   coefficient |-> c.coefficient]

\* the coefficient taken from the waiting time before the increment
RefreshClientOldTime(c, nc) ==
  [id |-> c.id, files |-> c.files, time |-> c.time + 1,
   coefficient |-> Coefficient(c.time, c.files[1], nc)]

\* lines 222-225: the client waits one tick more and gets a new coefficient
RefreshClient(c, nc) ==
  [id |-> c.id, files |-> c.files, time |-> c.time + 1,
   coefficient |-> Coefficient(c.time + 1, c.files[1], nc)]

\* the loop stopping one entry short, the last client lost from the list
RECURSIVE RefreshAllButLast(_, _)
RefreshAllButLast(cl, nc) ==
  IF Len(cl) <= 1 THEN <<>>
  ELSE <<RefreshClient(Head(cl), nc)>> \o RefreshAllButLast(Tail(cl), nc)

\* lines 221-225: the loop over clients_list
RECURSIVE RefreshClients(_, _)
RefreshClients(cl, nc) ==
  IF cl = <<>> THEN <<>>
  ELSE <<RefreshClient(Head(cl), nc)>> \o RefreshClients(Tail(cl), nc)

\* max(...) of line 231 over the coefficients of cl (cl not empty)
MaxCoefficient(cl) ==
  CHOOSE x \in {cl[k].coefficient : k \in 1 .. Len(cl)} :
    \A k \in 1 .. Len(cl) : cl[k].coefficient <= x

\* the last position holding x
LastIndexOf(s, x) ==
  CHOOSE k \in 1 .. Len(s) : s[k] = x /\ \A j \in (k + 1) .. Len(s) : s[j] # x

\* list.index(x) of lines 231, 241, 243, 246: the first position holding x
IndexOf(s, x) ==
  CHOOSE k \in 1 .. Len(s) : s[k] = x /\ \A j \in 1 .. (k - 1) : s[j] # x

\* lines 230-231: position of the client update selects
SelectedIndex(cl) ==
  IndexOf([k \in 1 .. Len(cl) |-> cl[k].coefficient], MaxCoefficient(cl))

\* the test of line 236 inverted
BusyHosts(sl) == {h \in Hosts : sl[h] = TRUE}

\* lines 235-236: the hosts whose flag the scan reads as False
IdleHosts(sl) == {h \in Hosts : sl[h] = FALSE}

\* lines 235-236 and 247: the scan stops at the first idle host
FirstIdle(sl) == CHOOSE h \in IdleHosts(sl) : \A g \in IdleHosts(sl) : h <= g

\* two files deleted: del clients_list[m][1][0:2]
DeleteTwoFiles(cl, m) == [cl EXCEPT ![m].files = SubSeq(@, 3, Len(@))]

\* line 241: del clients_list[m][1][0]
DeleteFirstFile(cl, m) == [cl EXCEPT ![m].files = Tail(@)]

\* del clients_list[m] of line 246
DeleteAt(s, m) == SubSeq(s, 1, m - 1) \o SubSeq(s, m + 1, Len(s))

\* the client leaves the list with one file left: if len(...) <= 1
RemoveIfShort(cl, m) == IF Len(cl[m].files) <= 1 THEN DeleteAt(cl, m) ELSE cl

\* lines 243-246: a client left without files leaves the list
RemoveIfEmpty(cl, m) == IF Len(cl[m].files) = 0 THEN DeleteAt(cl, m) ELSE cl

\* the decrement of line 245 left out
CountKept(cl, m, nc) == nc

\* line 244: num_clients goes down with the removal
CountAfterRemoval(cl, m, nc) == IF Len(cl[m].files) = 0 THEN nc - 1 ELSE nc

\* The lambda of lines 238-240 reads the variable i of update when the thread
\* runs it, not when the thread is created.  From the creation of the thread
\* on, i holds h up to line 247, then 0, 1, ..., L - 1 in the loop of lines
\* 252-255 (L clients left), and keeps its last value after update returns.
RECURSIVE ValuesOfI(_, _)
ValuesOfI(h, L) == IF L = 0 THEN <<h>> ELSE Append(ValuesOfI(h, L - 1), L - 1)

\* the three reads of i (status_list[i][0], status_list[i][1], i), in order
ClosureReads(h, L) ==
  LET v == ValuesOfI(h, L)
      P == 1 .. Len(v)
  IN  {<<v[x[1]], v[x[2]], v[x[3]]>> :
         x \in {y \in P \X P \X P : y[1] <= y[2] /\ y[2] <= y[3]}}

\* The thread created at lines 238-240 for client cid, the host h found by
\* the scan and the reads r of i, as the bag of threads it adds.
\* status_list[i] with i outside the list raises IndexError in the thread
\* before step_proc_pb is entered, and the thread ends at once.
NewThread(r, cid, h) ==
  IF r[1] \in Hosts /\ r[2] \in Hosts /\ r[3] \in Hosts
  THEN SetToBag({[pc |-> "started",
                  status_index |-> r[3], name_label |-> cid, step |-> 0,
                  host |-> h]})
  ELSE EmptyBag

\* the thread started twice
StartThreadTwice(ths, t) == (ths (+) t) (+) t

\* Thread(...).start() of lines 238-240
StartThread(ths, t) == ths (+) t

\* lines 211-258: one tick.  Every value is bound once, in the order the code
\* computes it.  A tick that can send no file only adds to the waiting
\* times, and runs while these are below MaxTime; a tick that sends a file
\* runs at any waiting time, and there are no more such ticks than files.
update ==
  /\ IdleHosts(status_list) = {} =>
       \A k \in 1 .. Len(clients_list) : clients_list[k].time < MaxTime
  /\ \E cl \in {RefreshClients(clients_list, num_clients)} :
       IF cl = <<>> \/ IdleHosts(status_list) = {}
       THEN /\ clients_list' = cl
            /\ UNCHANGED <<num_clients, threads, sent>>
       ELSE /\ BagCardinality(threads) < MaxThreads
            /\ \E max_coefficient \in {cl[SelectedIndex(cl)]} :
               \E h \in {FirstIdle(status_list)} :
               \E m \in {IndexOf(cl, max_coefficient)} :
               \E del \in {DeleteFirstFile(cl, m)} :
               \E rest \in {RemoveIfEmpty(del, m)} :
                 /\ clients_list' = rest
                 /\ num_clients' = CountAfterRemoval(del, m, num_clients)
                 /\ \E r \in ClosureReads(h, Len(rest)) :
                      threads' = StartThread(threads,
                                   NewThread(r, max_coefficient.id, h))
                 /\ sent' = [sent EXCEPT ![max_coefficient.id] =
                                            max_coefficient.files[1]]
  /\ UNCHANGED <<id, clock_tick, status_list, gen>>

\* ------------------------------------------------------------ step_proc_pb
\* line 186
SetStatus(sl, i) == [sl EXCEPT ![i] = TRUE]

\* the flag left as it is
KeepStatus(sl, i) == sl

\* line 196
ClearStatus(sl, i) == [sl EXCEPT ![i] = FALSE]

\* the thread t of the bag moves on to t2
MoveThread(ths, t, t2) == (ths (-) SetToBag({t})) (+) SetToBag({t2})

\* the thread t of the bag ends
EndThread(ths, t) == ths (-) SetToBag({t})

\* line 186: the thread marks its host active
step_proc_pb_begin(t) ==
  /\ t.pc = "started"
  /\ status_list' = SetStatus(status_list, t.status_index)
  /\ threads' = MoveThread(threads, t, [t EXCEPT !.pc = "running"])
  /\ UNCHANGED <<num_clients, id, clock_tick, clients_list, gen, sent>>

\* lines 189-193: one iteration of the progress loop
step_proc_pb_loop(t) ==
  /\ t.pc = "running"
  /\ t.step < NumSteps
  /\ threads' = MoveThread(threads, t, [t EXCEPT !.step = @ + 1])
  /\ UNCHANGED <<num_clients, id, clock_tick, clients_list, status_list, gen, sent>>

\* lines 194-196: after the loop the thread marks its host inactive and ends
step_proc_pb_end(t) ==
  /\ t.pc = "running"
  /\ t.step = NumSteps
  /\ status_list' = ClearStatus(status_list, t.status_index)
  /\ threads' = EndThread(threads, t)
  /\ UNCHANGED <<num_clients, id, clock_tick, clients_list, gen, sent>>

step_proc_pb(t) ==
  step_proc_pb_begin(t) \/ step_proc_pb_loop(t) \/ step_proc_pb_end(t)

\* -------------------------------------------------------- change_clock_tick
\* the floor of lines 208-209 left out
ChangeWithoutFloor(ct, component) == ct + component

\* lines 207-209
change_clock_tick(ct, component) ==
  IF ct + component <= 100 THEN 100 ELSE ct + component

\* the "Speed up" button, line 138
speed_up ==
  /\ clock_tick' = change_clock_tick(clock_tick, 0 - 100)
  /\ UNCHANGED <<num_clients, id, clients_list, status_list, threads, gen, sent>>

\* the "Slow down" button, line 145
slow_down ==
  /\ clock_tick + 100 <= MaxClockTick
  /\ clock_tick' = change_clock_tick(clock_tick, 100)
  /\ UNCHANGED <<num_clients, id, clients_list, status_list, threads, gen, sent>>

\* The scheduling: generated clients, ticks and host threads.  clock_tick
\* only sets the length of the sleeps of lines 193 and 258, which are not
\* part of the state, so the two speed buttons are explored with the
\* "Generate client" button in SpecButtons.
Next ==
  \/ insert_new_client
  \/ update
  \/ \E t \in BagToSet(threads) : step_proc_pb(t)

Spec == Init /\ [][Next]_vars

\* the three buttons of lines 128-146
NextButtons == insert_new_client \/ speed_up \/ slow_down

SpecButtons == Init /\ [][NextButtons]_vars

\* the threads are scheduled fairly by the operating system
FairSpec ==
  Spec /\ WF_vars(\E t \in BagToSet(threads) : step_proc_pb(t))

\* line 258 re-arms the timer at the end of every call of update, and the Tk
\* main loop runs the callback when it is due; the threads are scheduled as
\* for FairSpec
FairTickSpec ==
  Spec /\ WF_vars(update) /\ WF_vars(\E t \in BagToSet(threads) : step_proc_pb(t))

\* ------------------------------------------- the file list of line 159-161
\* The list comprehension of line 159 with all counts of randint(2, 11) and
\* the two extreme sizes of randint(1, 1000), followed by the sort.
ExtremeSizes ==
  {v \in RandInt(1, 1000) :
     (\A u \in RandInt(1, 1000) : v <= u) \/ (\A u \in RandInt(1, 1000) : u <= v)}

\* random.randint(2, 11) of line 159
draw_count ==
  /\ gen.pc \in {"idle", "sorted"}
  /\ \E n \in RandInt(2, 11) : gen' = [pc |-> "drawing", n |-> n, files |-> <<>>]
  /\ UNCHANGED <<num_clients, id, clock_tick, clients_list, status_list, threads, sent>>

\* one element of the list comprehension of line 159
draw_file ==
  /\ gen.pc = "drawing"
  /\ Len(gen.files) < RangeLen(gen.n)
  /\ \E v \in ExtremeSizes : gen' = [gen EXCEPT !.files = Append(@, v)]
  /\ UNCHANGED <<num_clients, id, clock_tick, clients_list, status_list, threads, sent>>

\* line 161
sort_files ==
  /\ gen.pc = "drawing"
  /\ Len(gen.files) = RangeLen(gen.n)
  /\ gen' = [gen EXCEPT !.pc = "sorted", !.files = Sort(@)]
  /\ UNCHANGED <<num_clients, id, clock_tick, clients_list, status_list, threads, sent>>

NextGen == draw_count \/ draw_file \/ sort_files

SpecGen == Init /\ [][NextGen]_vars

\* ------------------------------------------------------- shared vocabulary
\* number of live threads satisfying P
CountThreads(P(_)) ==
  LET live == {t \in BagToSet(threads) : P(t)}
      RECURSIVE Sum(_)
      Sum(S) == IF S = {} THEN 0
                ELSE LET t == CHOOSE x \in S : TRUE
                     IN  CopiesIn(t, threads) + Sum(S \ {t})
  IN  Sum(live)

\* live threads started for host h by the scan of update
ThreadsOnHost(h) == LET P(t) == t.host = h IN CountThreads(P)

\* live threads serving a file of client c
ThreadsOfClient(c) == LET P(t) == t.name_label = c IN CountThreads(P)

RECURSIVE SumLen(_)
SumLen(cl) == IF cl = <<>> THEN 0 ELSE Len(Head(cl).files) + SumLen(Tail(cl))

\* files left in the queue
TotalFiles == SumLen(clients_list)

\* the same quantities after the step
ThreadsOfClientNext(c) ==
  LET live == {t \in BagToSet(threads') : t.name_label = c}
      RECURSIVE Sum(_)
      Sum(S) == IF S = {} THEN 0
                ELSE LET t == CHOOSE x \in S : TRUE
                     IN  CopiesIn(t, threads') + Sum(S \ {t})
  IN  Sum(live)

\* ------------------------------------------------------------------ claims
\* C1: in every reachable state each host has at most one thread that was
\* started for it and has not finished, whatever the interleaving of update
\* and the threads.
C1_OneThreadPerHost == \A h \in Hosts : ThreadsOnHost(h) <= 1

\* C2 (as stated): for every client id at most one live thread serves a
\* file of that client.
C2_OneHostPerClient == \A c \in 1 .. MaxClients : ThreadsOfClient(c) <= 1

\* C2 (amended): a client can hold several hosts at once, but it gets at
\* most one more in any tick: no step raises the number of live threads of a
\* client by more than one.
C2_OneMoreHostPerTick ==
  [][\A c \in 1 .. MaxClients : ThreadsOfClientNext(c) <= ThreadsOfClient(c) + 1]_vars

\* a client that won a later tick while its earlier thread was still alive
C2_Witness == \E c \in 1 .. MaxClients : ThreadsOfClient(c) = 2

\* C3: one execution of update starts at most one thread and takes at most
\* one file out of the queue.
C3_OneDispatchPerTick ==
  [][update =>
       /\ BagCardinality(threads') <= BagCardinality(threads) + 1
       /\ SumLen(clients_list') >= SumLen(clients_list) - 1]_vars

\* a tick has started a thread while another host was idle and files were left
C3_Witness ==
  /\ BagCardinality(threads) = 1
  /\ \A h \in Hosts : status_list[h] = FALSE
  /\ TotalFiles >= 1

\* C4: a tick that starts with a non-empty queue and at least two idle hosts
\* ends with exactly one more host marked busy, the other idle hosts still
\* idle; the flag is set by the tick itself.
C4_TickMarksHostBusy ==
  [][(update /\ clients_list # <<>> /\ Cardinality(IdleHosts(status_list)) >= 2) =>
       /\ Cardinality({h \in Hosts : status_list[h] = FALSE /\ status_list'[h] = TRUE}) = 1
       /\ \A h \in Hosts : status_list[h] = TRUE => status_list'[h] = TRUE]_vars

\* ids of the clients in the list cl
ClientIds(cl) == {cl[k].id : k \in 1 .. Len(cl)}

\* files of client c in the list cl, <<>> when c is not in cl
FilesOf(cl, c) ==
  IF c \in ClientIds(cl)
  THEN cl[CHOOSE k \in 1 .. Len(cl) : cl[k].id = c].files
  ELSE <<>>

IsSorted(s) == \A i \in 1 .. Len(s) : \A j \in i .. Len(s) : s[i] <= s[j]

\* C5: a client leaves the queue in exactly the tick that takes its last
\* file: no client in clients_list has an empty file list, a client that
\* leaves had one file and that file was taken in this step, and a client
\* with more than one file stays.
C5_RemovedWithLastFile ==
  /\ [](\A k \in 1 .. Len(clients_list) : Len(clients_list[k].files) >= 1)
  /\ [][\A k \in 1 .. Len(clients_list) :
          LET c == clients_list[k]
          IN  /\ c.id \notin ClientIds(clients_list') =>
                   /\ Len(c.files) = 1
                   /\ SumLen(clients_list') = SumLen(clients_list) - 1
              /\ Len(c.files) > 1 => c.id \in ClientIds(clients_list')]_vars

\* one client has left with its last file, another has had a file taken and
\* stays
C5_Witness ==
  /\ \E c \in 1 .. MaxClients : c < id /\ sent[c] > 0 /\ c \notin ClientIds(clients_list)
  /\ \E k \in 1 .. Len(clients_list) : sent[clients_list[k].id] > 0

\* C6: the file list of every client is sorted ascending in every state, the
\* file a tick takes is the smallest one left, and the sizes sent for one
\* client never decrease.
C6_FilesServedAscending ==
  /\ [](\A k \in 1 .. Len(clients_list) :
          /\ IsSorted(clients_list[k].files)
          /\ sent[clients_list[k].id] <= clients_list[k].files[1])
  /\ [][/\ \A c \in 1 .. MaxClients : sent'[c] >= sent[c]
        /\ \A k \in 1 .. Len(clients_list) :
             LET c == clients_list[k]
             IN  FilesOf(clients_list', c.id) # c.files =>
                   /\ FilesOf(clients_list', c.id) = Tail(c.files)
                   /\ sent'[c.id] = c.files[1]
                   /\ \A j \in 1 .. Len(c.files) : c.files[1] <= c.files[j]]_vars

\* a client whose smallest file was sent and whose larger file is left
C6_Witness ==
  \E k \in 1 .. Len(clients_list) :
    /\ sent[clients_list[k].id] >= 1
    /\ clients_list[k].files[1] > sent[clients_list[k].id]

\* C7: a tick that sends a file has selected a client whose coefficient is
\* the greatest in the queue, and among the clients with that coefficient
\* the one with the smallest id.
C7_SelectsEarliestMax ==
  [][(update /\ SumLen(clients_list') < SumLen(clients_list)) =>
       LET cl == RefreshClients(clients_list, num_clients)
           sel == CHOOSE k \in 1 .. Len(clients_list) :
                    FilesOf(clients_list', clients_list[k].id) # clients_list[k].files
       IN  \A j \in 1 .. Len(cl) :
             /\ cl[j].coefficient <= cl[sel].coefficient
             /\ cl[j].coefficient = cl[sel].coefficient => cl[sel].id <= cl[j].id]_vars

\* after client 1 has left, clients 2 and 3 were tied and client 2 was served
C7_Witness ==
  /\ Len(clients_list) = 2
  /\ clients_list[1].id = 2 /\ clients_list[2].id = 3
  /\ clients_list[1].time = 1 /\ clients_list[2].time = 1
  /\ clients_list[1].coefficient = clients_list[2].coefficient
  /\ sent[2] > 0 /\ sent[3] = 0

\* live threads that have marked host h busy and not yet cleared the flag
RunningOn(h) ==
  {t \in BagToSet(threads) : t.pc = "running" /\ t.status_index = h}

\* C8: with the threads scheduled fairly, a host whose flag is True gets its
\* flag back to False, and in no state is a flag True without a thread
\* running on that host to clear it.
C8_BusyHostBecomesIdle ==
  /\ \A h \in Hosts : (status_list[h] = TRUE) ~> (status_list[h] = FALSE)
  /\ [](\A h \in Hosts : status_list[h] = TRUE => RunningOn(h) # {})

\* a thread has marked its host busy
C8_Witness == \E h \in Hosts : status_list[h] = TRUE /\ RunningOn(h) # {}

Max(a, b) == IF a >= b THEN a ELSE b

\* the changes the buttons ask for, and the change of the scenario
Deltas == {0 - 1000, 0 - 100, 100}

\* C9: change_clock_tick(delta) sets clock_tick to max(100, clock_tick +
\* delta): from every clock_tick the buttons reach, every change gives that
\* value (from 1000, a change of -1000 gives 100), the steps of the buttons
\* follow it, and clock_tick is never below 100.
C9_ClockTickFloor ==
  /\ [](/\ clock_tick >= 100
        /\ \A d \in Deltas :
             change_clock_tick(clock_tick, d) = Max(100, clock_tick + d))
  /\ [][clock_tick' # clock_tick =>
          clock_tick' \in {Max(100, clock_tick - 100), Max(100, clock_tick + 100)}]_vars

\* "Speed up" has brought clock_tick down to the floor
C9_Witness == clock_tick = 100

\* C10 (as stated): every generated client has between 2 and 10 files, each
\* of a size between 1 and 1000.
C10_TwoToTenFiles ==
  gen.pc = "sorted" =>
    /\ Len(gen.files) >= 2 /\ Len(gen.files) <= 10
    /\ \A k \in 1 .. Len(gen.files) : gen.files[k] >= 1 /\ gen.files[k] <= 1000

\* C10 (amended): every generated client has between 1 and 10 files, each of
\* a size between 1 and 1000.
C10_OneToTenFiles ==
  gen.pc = "sorted" =>
    /\ Len(gen.files) >= 1 /\ Len(gen.files) <= 10
    /\ \A k \in 1 .. Len(gen.files) : gen.files[k] >= 1 /\ gen.files[k] <= 1000

\* a list of ten files holding the smallest and the largest size
C10_Witness ==
  /\ gen.pc = "sorted"
  /\ Len(gen.files) = 10
  /\ gen.files[1] = 1
  /\ gen.files[10] = 1000

\* C11: for a fixed queue size and a fixed smallest file the coefficient is
\* strictly greater for a waiting time greater by one, and a tick that leaves
\* a client's files and the queue size as they were when its coefficient was
\* computed stores a strictly greater coefficient for that client.
C11_AgingMonotone ==
  /\ [](\A k \in 1 .. Len(clients_list) :
          \A t \in 0 .. (MaxTime - 1) :
            Coefficient(t + 1, clients_list[k].files[1], num_clients)
              > Coefficient(t, clients_list[k].files[1], num_clients))
  /\ [][update =>
          \A k \in 1 .. Len(clients_list) :
            LET c == clients_list[k]
            IN  (/\ c.coefficient = Coefficient(c.time, c.files[1], num_clients)
                 /\ FilesOf(clients_list', c.id) = c.files
                 /\ num_clients' = num_clients) =>
                  \E j \in 1 .. Len(clients_list') :
                    /\ clients_list'[j].id = c.id
                    /\ clients_list'[j].coefficient > c.coefficient]_vars

\* client 2 has waited three ticks alone in the queue with no file taken, and
\* its coefficient is above the one of the tick before
C11_Witness ==
  /\ Len(clients_list) = 1 /\ num_clients = 1
  /\ clients_list[1].id = 2 /\ sent[2] = 0
  /\ clients_list[1].time = 3
  /\ clients_list[1].coefficient = Coefficient(3, clients_list[1].files[1], 1)
  /\ clients_list[1].coefficient > Coefficient(2, clients_list[1].files[1], 1)

\* C12: a thread never clears the flag of a host whose flag is already
\* False: whenever a thread executes line 196, the flag of the host it frees
\* is True.
C12_FreeOnlyBusyHost ==
  [][\A t \in BagToSet(threads) :
       step_proc_pb_end(t) => status_list[t.status_index] = TRUE]_vars

\* C13: the thread started by a tick uses, as its status index, the host the
\* scan of that tick found: the lowest-index host whose flag was False,
\* whatever values the loop variable i takes later in the same call.
C13_ThreadUsesScannedHost ==
  [][update =>
       \A t \in BagToSet(threads') :
         CopiesIn(t, threads') > CopiesIn(t, threads) =>
           /\ t.host = FirstIdle(status_list)
           /\ t.status_index = t.host]_vars

\* C14: in every state, every host for which a started thread has not yet
\* finished has its flag True.
C14_UnfinishedThreadHostBusy ==
  \A t \in BagToSet(threads) : status_list[t.host] = TRUE

\* the entry of client c in the list cl (c in cl)
ClientOf(cl, c) == cl[CHOOSE k \in 1 .. Len(cl) : cl[k].id = c]

\* C15: a client enters the queue with waiting time 0; a tick adds exactly 1
\* to the waiting time of every client in the queue, the client whose file
\* it takes included, and no other step changes a waiting time; the
\* coefficient a tick stores for a client is the expression applied to the
\* new waiting time, the smallest file the client has when the tick starts
\* and, for every client alike, the number of clients in the queue then.
C15_TickAgesEveryClient ==
  /\ [][\A j \in 1 .. Len(clients_list') :
          clients_list'[j].id \notin ClientIds(clients_list) =>
            clients_list'[j].time = 0]_vars
  /\ [][\A k \in 1 .. Len(clients_list) :
          LET c == clients_list[k]
          IN  c.id \in ClientIds(clients_list') =>
                LET d == ClientOf(clients_list', c.id)
                IN  IF update
                    THEN /\ d.time = c.time + 1
                         /\ d.coefficient =
                              Coefficient(c.time + 1, c.files[1], Len(clients_list))
                    ELSE d.time = c.time]_vars

\* two clients have waited in the queue, and one of them has had a file
\* taken and keeps its waiting time
C15_Witness ==
  /\ Len(clients_list) = 2
  /\ clients_list[1].time = 2 /\ clients_list[2].time = 1
  /\ sent[clients_list[1].id] > 0
  /\ sent[clients_list[2].id] = 0

\* C16: a tick that finds the queue empty, or the flag of every host True,
\* starts no thread and leaves num_clients, every flag, the clients in the
\* queue with their order, and every client's files as they are; of the
\* queue only waiting times and coefficients change.
C16_TickWithoutDispatch ==
  [][(update /\ (clients_list = <<>> \/ \A h \in Hosts : status_list[h] = TRUE)) =>
       /\ threads' = threads
       /\ num_clients' = num_clients
       /\ status_list' = status_list
       /\ sent' = sent
       /\ Len(clients_list') = Len(clients_list)
       /\ \A k \in 1 .. Len(clients_list) :
            /\ clients_list'[k].id = clients_list[k].id
            /\ clients_list'[k].files = clients_list[k].files]_vars

\* every host is busy and two clients have waited three ticks with no file
\* taken, so that ticks have run that sent nothing
C16_Witness ==
  /\ \A h \in Hosts : status_list[h] = TRUE
  /\ Len(clients_list) = 2
  /\ \A k \in 1 .. Len(clients_list) :
       clients_list[k].time = 3 /\ sent[clients_list[k].id] = 0

\* C17: in every state num_clients is the length of clients_list and every
\* queued client has a first file of size at least 1, so that a coefficient
\* is only ever computed with a queue size of at least 1 and a positive
\* quotient: by insert_new_client after its increment, by a tick only for
\* the clients of a non-empty queue.
C17_CountIsQueueLength ==
  /\ [](/\ num_clients = Len(clients_list)
        /\ \A k \in 1 .. Len(clients_list) :
             /\ Len(clients_list[k].files) >= 1
             /\ clients_list[k].files[1] >= 1
        /\ clients_list # <<>> => num_clients >= 1)
  /\ [][Len(clients_list') > Len(clients_list) => num_clients' >= 1]_vars

\* a client has left the queue and another is still in it
C17_Witness ==
  /\ \E c \in 1 .. MaxClients : c < id /\ c \notin ClientIds(clients_list)
  /\ Len(clients_list) >= 1
  /\ num_clients = Len(clients_list)

\* C18: with ticks and threads scheduled fairly, a queue that is not empty
\* becomes empty: every file of every queued client is taken by a tick and
\* every client is removed.  (No behaviour generates clients forever: at
\* most MaxClients are generated.)
C18_QueueDrains == (clients_list # <<>>) ~> (clients_list = <<>>)

\* every client has been generated and has had files sent, and the queue is
\* empty
C18_Witness ==
  /\ id = MaxClients + 1
  /\ \A c \in 1 .. MaxClients : sent[c] > 0
  /\ clients_list = <<>>

\* C19 as stated: in the list a tick leaves, the coefficient of every client
\* is the expression applied to the waiting time, the first file and the
\* queue size of that list, also for the client whose file the tick took
\* and when the tick removed a client.
C19_StoredCoefficientCurrent ==
  [][update =>
       \A k \in 1 .. Len(clients_list') :
         LET d == clients_list'[k]
         IN  d.coefficient = Coefficient(d.time, d.files[1], num_clients')]_vars

\* C19: in the list a tick leaves, the coefficient of every client is the
\* one the tick computed before it selected: the expression applied to the
\* client's waiting time, to the file that was first when the tick began
\* (the file just sent, for the client the tick served) and to the queue
\* size when the tick began (one more than now, when the tick removed a
\* client); for a client that was not served, in a tick that removed no
\* client, these are the values of the list the tick leaves.
C19_StoredCoefficientOfSelection ==
  [][update =>
       \A k \in 1 .. Len(clients_list') :
         LET d == clients_list'[k]
             served == FilesOf(clients_list, d.id) # d.files
             removed == Len(clients_list') < Len(clients_list)
         IN  /\ d.coefficient =
                  Coefficient(d.time,
                              IF served THEN sent'[d.id] ELSE d.files[1],
                              IF removed THEN num_clients' + 1 ELSE num_clients')
             /\ (~served /\ ~removed) =>
                  d.coefficient = Coefficient(d.time, d.files[1], num_clients')]_vars

\* a client is left with a file larger than the one just sent, and its
\* coefficient is that of the file sent, not that of the file now first
C19_Witness ==
  \E k \in 1 .. Len(clients_list) :
    LET d == clients_list[k]
    IN  /\ sent[d.id] >= 1
        /\ d.files[1] > sent[d.id]
        /\ d.coefficient = Coefficient(d.time, sent[d.id], num_clients)
        /\ d.coefficient # Coefficient(d.time, d.files[1], num_clients)

====
